---- MODULE Spec2Model ----
(***************************************************************************)
(* The Dashboard component of the sentiment platform's frontend            *)
(* (components/Dashboard.jsx) together with services/api.js.               *)
(*                                                                         *)
(* The component owns five hook states (distribution, posts, trend,        *)
(* status, lastUpdate).  Its mount effect issues two REST requests and     *)
(* opens one WebSocket; the effect's cleanup closes the socket.  The REST  *)
(* collaborator and the WebSocket are the environment: every response the  *)
(* two requests can get is drawn in Init (a request in flight), and the    *)
(* socket follows the WebSocket interface's ready-state rules.             *)
(***************************************************************************)
EXTENDS Integers, Sequences, FiniteSets, TLC

VARIABLES
    distribution,   \* useState({positive:0, negative:0, neutral:0})
    posts,          \* useState([])
    trend,          \* useState([])
    status,         \* useState("connecting")
    lastUpdate,     \* useState("--")
    mounted,        \* the component is mounted (the effect's cleanup has not run)
    dirty,          \* a state setter ran and React has not rendered again yet
    readyState,     \* ws.readyState of the socket made by connectWebSocket
    closePending,   \* the socket fired its error event; its close event follows
    reqDistribution,\* the promise of fetchDistribution(): in flight or settled
    reqPosts,       \* the promise of fetchPosts(20, 0): in flight or settled
    uncaught,       \* uncaught exceptions and unhandled rejections raised so far
    late,           \* setters called and errors raised after the cleanup ran
    sockets,        \* how many WebSocket objects connectWebSocket has constructed
    chart           \* what DistributionChart returned in the last render

vars == <<distribution, posts, trend, status, lastUpdate, mounted, dirty,
          readyState, closePending, reqDistribution, reqPosts, uncaught, late,
          sockets, chart>>

hooks == <<distribution, posts, trend, status, lastUpdate>>

(***************************************************************************)
(* Bounds of the model.                                                    *)
(***************************************************************************)
MaxPosts == 2       \* longest post list a response carries
MaxTime  == 2       \* wall-clock readings new Date() can return
MaxBatch == 3       \* longest post list the trend aggregation is given
MaxCount == 4       \* largest count in the distributions enumerated in full

(***************************************************************************)
(* JavaScript values.                                                      *)
(***************************************************************************)
Undefined == [type |-> "undefined"]

Array(items) == [type |-> "array", items |-> items]

\* d.k : reading a property an object does not have yields undefined
Prop(d, k) == IF k \in DOMAIN d THEN d[k] ELSE Undefined

Labels == {"positive", "negative", "neutral"}

\* created_at is modelled as whole hours since local midnight of day 0
Post(t, l) == [created_at |-> t, sentiment |-> [label |-> l]]

\* the post records the REST collaborator's responses are built from
Posts == {Post(10, "positive"), Post(10, "negative"), Post(14, "neutral"),
          Post(34, "positive")}

RECURSIVE SeqsUpTo(_, _)
SeqsUpTo(S, n) ==
    IF n = 0 THEN {<<>>}
    ELSE LET shorter == SeqsUpTo(S, n - 1)
         IN  shorter \cup {Append(s, x) : s \in {t \in shorter : Len(t) = n - 1}, x \in S}

Dist(p, n, u) == [positive |-> p, negative |-> n, neutral |-> u]

\* the distribution snapshots the REST collaborator's responses carry
Distributions == {Dist(0, 0, 0), Dist(3, 1, 0), Dist(45, 12, 20)}

(***************************************************************************)
(* The REST collaborator: what fetch() can come back with.  A response is  *)
(* a network error (fetch rejects) or an HTTP response with a status and a *)
(* body that is JSON or not.  A success carries the documented body; a     *)
(* non-success carries FastAPI's JSON error body or a proxy's text body.   *)
(***************************************************************************)
NetworkError == [kind |-> "network_error"]

Http(code, isJson, body) == [kind |-> "http", status |-> code, json |-> isJson, body |-> body]

ErrorResponses ==
    { NetworkError,
      Http(500, TRUE, [detail |-> "Internal Server Error"]),
      Http(502, FALSE, [text |-> "Bad Gateway"]) }

DistributionResponses ==
    {Http(200, TRUE, [distribution |-> d]) : d \in Distributions} \cup ErrorResponses

PostsResponses ==
    {Http(200, TRUE, [total |-> Len(s), posts |-> Array(s)]) : s \in SeqsUpTo(Posts, MaxPosts)}
        \cup ErrorResponses

\* a request in flight: the arguments it was issued with and the response on its way
Pending(args, r) == [state |-> "pending", args |-> args, response |-> r]

\* fetchDistribution / fetchPosts: `await fetch(...)` rejects on a network error;
\* `res.json()` rejects when the body is not JSON; res.ok is never looked at.
fetchJson(r) ==
    IF r.kind = "network_error" THEN [state |-> "rejected", reason |-> "TypeError: Failed to fetch"]
    ELSE IF ~r.json THEN [state |-> "rejected", reason |-> "SyntaxError: res.json"]
    ELSE [state |-> "fulfilled", value |-> r.body]

(***************************************************************************)
(* The trend aggregation of the fetchPosts handler.                        *)
(***************************************************************************)
\* hours elapsed instead of the hour of the day
getHoursElapsed(t) == t

\* new Date(p.created_at).getHours()
getHours(t) == t % 24

ZeroCounts == [positive |-> 0, negative |-> 0, neutral |-> 0]

\* a forEach callback without the `buckets[hour] ||`: every post starts its
\* bucket afresh
AddPostResetting(buckets, p) ==
    LET hour == getHours(p.created_at)
        new  == [ZeroCounts EXCEPT ![p.sentiment.label] = @ + 1]
    IN  [h \in DOMAIN buckets \cup {hour} |-> IF h = hour THEN new ELSE buckets[h]]

\* one turn of the forEach callback: buckets[hour] = buckets[hour] || {0,0,0};
\* buckets[hour][p.sentiment.label]++
AddPost(buckets, p) ==
    LET hour == getHours(p.created_at)
        old  == IF hour \in DOMAIN buckets THEN buckets[hour] ELSE ZeroCounts
        new  == [old EXCEPT ![p.sentiment.label] = @ + 1]
    IN  [h \in DOMAIN buckets \cup {hour} |-> IF h = hour THEN new ELSE buckets[h]]

RECURSIVE ForEach(_, _)
ForEach(items, buckets) ==
    IF items = <<>> THEN buckets
    ELSE ForEach(Tail(items), AddPost(buckets, Head(items)))

\* Object.keys(buckets): integer keys come out in ascending order
RECURSIVE ObjectKeys(_)
ObjectKeys(keys) ==
    IF keys = {} THEN <<>>
    ELSE LET least == CHOOSE k \in keys : \A j \in keys : k <= j
         IN  <<least>> \o ObjectKeys(keys \ {least})

\* the handler's lines 22-32: posts in, trendData out
computeTrendBuckets(items) ==
    LET buckets == ForEach(items, [h \in {} |-> ZeroCounts])
        keys    == ObjectKeys(DOMAIN buckets)
    IN  [i \in 1..Len(keys) |->
            [timestamp |-> <<"Hour", keys[i]>>,
             positive  |-> buckets[keys[i]].positive,
             negative  |-> buckets[keys[i]].negative,
             neutral   |-> buckets[keys[i]].neutral]]

(***************************************************************************)
(* DistributionChart: the percentage breakdown of the distribution.        *)
(***************************************************************************)
\* n hundredths written with two decimals, as toFixed(2) writes it
Fixed2(n) ==
    ToString(n \div 100) \o "." \o ToString((n % 100) \div 10) \o ToString(n % 10)

\* count / total is a binary fraction, so the double holds it exactly
Dyadic(count, total) == (32 * count) % total = 0

\* a percentage cut off after two decimals instead of rounded
PercentageTruncated(count, total, down) == Fixed2((10000 * count) \div total)

\* ((count / total) * 100).toFixed(2).  toFixed rounds the double it is given
\* to the nearest hundredth, the larger one on a tie.  The double is the exact
\* quotient when count / total is a binary fraction; otherwise it is off by a
\* rounding error, which decides nothing unless the exact quotient lies half-way
\* between two hundredths: there the double lies on either side (down: below).
Percentage(count, total, down) ==
    LET q == (10000 * count) \div total
        r == (10000 * count) % total
    IN  IF 2 * r > total THEN Fixed2(q + 1)
        ELSE IF 2 * r < total THEN Fixed2(q)
        ELSE IF Dyadic(count, total) \/ ~down THEN Fixed2(q + 1)
        ELSE Fixed2(q)

\* Object.keys(data) of a distribution object
DistributionKeys == <<"positive", "negative", "neutral">>

\* a filter that is off by one: data[k] > 1
ChartDataSkippingOnes(data, total, down) ==
    LET kept == SelectSeq(DistributionKeys, LAMBDA k : data[k] > 1)
    IN  [i \in 1..Len(kept) |->
            [name |-> kept[i], value |-> data[kept[i]],
             percentage |-> Percentage(data[kept[i]], total, down[kept[i]])]]

\* Object.keys(data).filter(k => data[k] > 0).map(k => ({name, value, percentage}))
ChartData(data, total, down) ==
    LET kept == SelectSeq(DistributionKeys, LAMBDA k : data[k] > 0)
    IN  [i \in 1..Len(kept) |->
            [name |-> kept[i], value |-> data[kept[i]],
             percentage |-> Percentage(data[kept[i]], total, down[kept[i]])]]

NoData == [view |-> "No sentiment data available"]

\* a chart without the `total === 0` early return
DistributionChartUnguarded(data, down) ==
    [view |-> "PieChart",
     chartData |-> ChartData(data, data.positive + data.negative + data.neutral, down)]

\* DistributionChart({ data }): the empty state when total === 0, else the pie
DistributionChart(data, down) ==
    LET total == data.positive + data.negative + data.neutral
    IN  IF total = 0 THEN NoData
        ELSE [view |-> "PieChart", chartData |-> ChartData(data, total, down)]

\* which side of a half-way case the double falls on, for each label
TieSides == [Labels -> BOOLEAN]

(***************************************************************************)
(* The push channel.  e.data of a message event is a string; the channel   *)
(* documents {type, data} envelopes, and a peer can send anything.         *)
(***************************************************************************)
MessageData == { "{\"type\":\"new_post\",\"data\":{}}", "{}", "new_post", "" }

\* a parse wrapped in try/catch that hands the raw text on instead of throwing
JSONparseLenient(data) == [ok |-> TRUE, value |-> [raw |-> data]]

\* JSON.parse(e.data): the parsed value, or a SyntaxError
JSONparse(data) ==
    CASE data = "{\"type\":\"new_post\",\"data\":{}}" ->
            [ok |-> TRUE, value |-> [type |-> "new_post", data |-> [empty |-> TRUE]]]
      [] data = "{}" -> [ok |-> TRUE, value |-> [empty |-> TRUE]]
      [] OTHER -> [ok |-> FALSE, error |-> "SyntaxError: JSON.parse"]

\* new Date().toLocaleTimeString() at wall-clock reading t
toLocaleTimeString(t) == ToString(t) \o ":00:00"

\* ws.close(): a socket that is connecting or open starts closing; a closing
\* or closed one is left alone
wsClose(rs) == IF rs \in {"CONNECTING", "OPEN"} THEN "CLOSING" ELSE rs

(***************************************************************************)
(* React's useState setters.  An update to a mounted component replaces    *)
(* the state and schedules a render; React drops an update to a component  *)
(* that is unmounted, and the call is recorded in `late`.                  *)
(***************************************************************************)
Setters == {"setDistribution", "setPosts", "setTrend", "setStatus", "setLastUpdate"}

SetState(cur, new) == IF mounted THEN new ELSE cur

Called(setters) ==
    /\ late' = IF mounted THEN late ELSE late \cup setters
    /\ dirty' = mounted

Raised(err) ==
    /\ uncaught' = uncaught \cup {err}
    /\ late' = IF mounted THEN late ELSE late \cup {err}

(***************************************************************************)
(* Dashboard: the state after the first render and the mount effect.       *)
(***************************************************************************)
InitWith(distributionResponses, postsResponses) ==
    /\ distribution = Dist(0, 0, 0)
    /\ posts = Array(<<>>)
    /\ trend = <<>>
    /\ status = "connecting"
    /\ lastUpdate = "--"
    /\ mounted = TRUE
    /\ dirty = FALSE
    /\ readyState = "CONNECTING"
    /\ closePending = FALSE
    /\ reqDistribution \in {Pending(<<24>>, r) : r \in distributionResponses}
    /\ reqPosts \in {Pending(<<20, 0>>, r) : r \in postsResponses}
    /\ uncaught = {}
    /\ late = {}
    /\ sockets = 1
    /\ chart = DistributionChart(Dist(0, 0, 0), [l \in Labels |-> FALSE])

Init == InitWith(DistributionResponses, PostsResponses)

\* a distribution handler that also resets the trend: setTrend([])
onDistributionResettingTrend(d) ==
    /\ distribution' = SetState(distribution, Prop(d, "distribution"))
    /\ trend' = SetState(trend, <<>>)
    /\ Called({"setDistribution", "setTrend"})
    /\ UNCHANGED <<posts, status, lastUpdate, uncaught>>

\* d => setDistribution(d.distribution)
onDistribution(d) ==
    /\ distribution' = SetState(distribution, Prop(d, "distribution"))
    /\ Called({"setDistribution"})
    /\ UNCHANGED <<posts, trend, status, lastUpdate, uncaught>>

\* d => { setPosts(d.posts); ...forEach...; setTrend(trendData) }
onPosts(d) ==
    /\ posts' = SetState(posts, Prop(d, "posts"))
    /\ IF Prop(d, "posts") = Undefined
       THEN \* d.posts.forEach throws: setTrend is never reached
            /\ trend' = trend
            /\ uncaught' = uncaught \cup {"TypeError: d.posts.forEach"}
            /\ late' = IF mounted THEN late
                                  ELSE late \cup {"setPosts", "TypeError: d.posts.forEach"}
            /\ dirty' = mounted
       ELSE /\ trend' = SetState(trend, computeTrendBuckets(d.posts.items))
            /\ Called({"setPosts", "setTrend"})
            /\ UNCHANGED uncaught
    /\ UNCHANGED <<distribution, status, lastUpdate>>

\* fetchDistribution().then(...) settles
SettleDistribution ==
    /\ reqDistribution.state = "pending"
    /\ LET out == fetchJson(reqDistribution.response)
       IN  /\ reqDistribution' = [reqDistribution EXCEPT !.state = out.state]
           /\ IF out.state = "fulfilled"
              THEN onDistribution(out.value)
              ELSE /\ Raised(out.reason)
                   /\ UNCHANGED <<hooks, dirty>>
    /\ UNCHANGED <<mounted, readyState, closePending, reqPosts, sockets, chart>>

\* a posts completion that marks the dashboard live: setStatus("connected")
SettlePostsConnecting ==
    /\ reqPosts.state = "pending"
    /\ reqPosts' = [reqPosts EXCEPT !.state = fetchJson(reqPosts.response).state]
    /\ status' = SetState(status, "connected")
    /\ Called({"setStatus"})
    /\ UNCHANGED <<distribution, posts, trend, lastUpdate, uncaught,
                   mounted, readyState, closePending, reqDistribution, sockets, chart>>

\* fetchPosts(20, 0).then(...) settles
SettlePosts ==
    /\ reqPosts.state = "pending"
    /\ LET out == fetchJson(reqPosts.response)
       IN  /\ reqPosts' = [reqPosts EXCEPT !.state = out.state]
           /\ IF out.state = "fulfilled"
              THEN onPosts(out.value)
              ELSE /\ Raised(out.reason)
                   /\ UNCHANGED <<hooks, dirty>>
    /\ UNCHANGED <<mounted, readyState, closePending, reqDistribution, sockets, chart>>

\* a message handler that merges the event into the post list
onMessageMerging(msg, t) ==
    /\ status' = SetState(status, "connected")
    /\ lastUpdate' = SetState(lastUpdate, toLocaleTimeString(t))
    /\ posts' = SetState(posts, IF posts = Undefined THEN posts
                                ELSE Array(<<Post(t, "neutral")>> \o posts.items))
    /\ Called({"setStatus", "setLastUpdate", "setPosts"})
    /\ UNCHANGED <<distribution, trend, uncaught>>

\* (msg) => { setStatus("connected"); setLastUpdate(new Date().toLocaleTimeString()) }
onMessage(msg, t) ==
    /\ status' = SetState(status, "connected")
    /\ lastUpdate' = SetState(lastUpdate, toLocaleTimeString(t))
    /\ Called({"setStatus", "setLastUpdate"})
    /\ UNCHANGED <<distribution, posts, trend, uncaught>>

\* an error handler that announces a retry: setStatus("connecting")
onErrorRetrying ==
    /\ status' = SetState(status, "connecting")
    /\ Called({"setStatus"})
    /\ UNCHANGED <<distribution, posts, trend, lastUpdate, uncaught>>

\* () => setStatus("disconnected")
onError ==
    /\ status' = SetState(status, "disconnected")
    /\ Called({"setStatus"})
    /\ UNCHANGED <<distribution, posts, trend, lastUpdate, uncaught>>

\* a close handler that starts a reconnection: setStatus("connecting")
onCloseReconnecting ==
    /\ status' = SetState(status, "connecting")
    /\ Called({"setStatus"})
    /\ UNCHANGED <<distribution, posts, trend, lastUpdate, uncaught>>

\* () => setStatus("disconnected")
onClose ==
    /\ status' = SetState(status, "disconnected")
    /\ Called({"setStatus"})
    /\ UNCHANGED <<distribution, posts, trend, lastUpdate, uncaught>>

\* an open handler that reports the channel live: ws.onopen = () => setStatus("connected")
WsOpenConnecting ==
    /\ readyState = "CONNECTING"
    /\ readyState' = "OPEN"
    /\ status' = SetState(status, "connected")
    /\ Called({"setStatus"})
    /\ UNCHANGED <<distribution, posts, trend, lastUpdate, mounted, closePending,
                   reqDistribution, reqPosts, uncaught, sockets, chart>>

\* the connection is established; connectWebSocket registers no onopen
WsOpen ==
    /\ readyState = "CONNECTING"
    /\ readyState' = "OPEN"
    /\ UNCHANGED <<hooks, mounted, dirty, closePending, reqDistribution, reqPosts,
                   uncaught, late, sockets, chart>>

\* a message event whose handler also issues fetchPosts(20, 0) again
WsMessageRefetching(data, t) ==
    /\ readyState = "OPEN"
    /\ onMessage(JSONparseLenient(data).value, t)
    /\ reqPosts' = [reqPosts EXCEPT !.state = "pending"]
    /\ UNCHANGED <<mounted, readyState, closePending, reqDistribution, sockets, chart>>

\* a message event (dispatched only to an open socket):
\* ws.onmessage = (e) => onMessage(JSON.parse(e.data))
WsMessage(data, t) ==
    /\ readyState = "OPEN"
    /\ IF JSONparse(data).ok
       THEN onMessage(JSONparse(data).value, t)
       ELSE /\ Raised(JSONparse(data).error)
            /\ UNCHANGED <<hooks, dirty>>
    /\ UNCHANGED <<mounted, readyState, closePending, reqDistribution, reqPosts,
                   sockets, chart>>

\* the connection fails: the socket becomes CLOSED and fires error, then close
WsError ==
    /\ readyState \in {"CONNECTING", "OPEN", "CLOSING"}
    /\ readyState' = "CLOSED"
    /\ closePending' = TRUE
    /\ onError
    /\ UNCHANGED <<mounted, reqDistribution, reqPosts, sockets, chart>>

\* a close event whose handler reconnects: connectWebSocket(...) once more
WsCloseReconnecting ==
    /\ closePending \/ readyState \in {"OPEN", "CLOSING"}
    /\ readyState' = "CONNECTING"
    /\ sockets' = sockets + 1
    /\ closePending' = FALSE
    /\ onClose
    /\ UNCHANGED <<mounted, reqDistribution, reqPosts, chart>>

\* the close event: after an error, or when the closing handshake completes
WsClose ==
    /\ closePending \/ readyState \in {"OPEN", "CLOSING"}
    /\ readyState' = "CLOSED"
    /\ closePending' = FALSE
    /\ onClose
    /\ UNCHANGED <<mounted, reqDistribution, reqPosts, sockets, chart>>

\* React renders the component with the current state.  Dashboard reads
\* distribution.positive and LiveFeed calls posts.map: either throws a TypeError
\* on undefined, and React then unmounts the tree, running the effect's cleanup.
\* Otherwise <DistributionChart data={distribution} /> is rendered anew.
RenderThrows == distribution = Undefined \/ posts = Undefined

Render(down) ==
    /\ mounted /\ dirty
    /\ dirty' = FALSE
    /\ IF RenderThrows
       THEN /\ uncaught' = uncaught \cup {"TypeError: render"}
            /\ mounted' = FALSE
            /\ readyState' = wsClose(readyState)
            /\ chart' = chart
       ELSE /\ chart' = DistributionChart(distribution, down)
            /\ UNCHANGED <<uncaught, mounted, readyState>>
    /\ UNCHANGED <<hooks, closePending, reqDistribution, reqPosts, late, sockets>>

\* the effect's cleanup: return () => ws.close()
Unmount ==
    /\ mounted
    /\ mounted' = FALSE
    /\ dirty' = FALSE
    /\ readyState' = wsClose(readyState)
    /\ UNCHANGED <<hooks, closePending, reqDistribution, reqPosts, uncaught, late,
                   sockets, chart>>

Next ==
    \/ SettleDistribution
    \/ SettlePosts
    \/ WsOpen
    \/ \E data \in MessageData, t \in 1..MaxTime : WsMessage(data, t)
    \/ WsError
    \/ WsClose
    \/ \E down \in TieSides : Render(down)
    \/ Unmount

Spec == Init /\ [][Next]_vars

(***************************************************************************)
(* The trend aggregation on its own: the posts handler run on every post   *)
(* list of up to MaxBatch posts over three timestamps (two of them the     *)
(* same hour of different days) and the three labels.                      *)
(***************************************************************************)
TrendPosts == {Post(t, l) : t \in {10, 14, 34}, l \in Labels}

TrendResponses ==
    {Http(200, TRUE, [total |-> Len(s), posts |-> Array(s)]) : s \in SeqsUpTo(TrendPosts, MaxBatch)}

InitTrend == InitWith({Http(200, TRUE, [distribution |-> Dist(0, 0, 0)])}, TrendResponses)

NextTrend == SettlePosts

SpecTrend == InitTrend /\ [][NextTrend]_vars

(***************************************************************************)
(* Properties.                                                             *)
(***************************************************************************)
Rank(st) == CASE st = "connecting" -> 0 [] st = "connected" -> 1 [] OTHER -> 2

Settled(req) == req.state # "pending"

\* HTTP success: res.ok
Ok(r) == r.kind = "http" /\ r.status \in 200..299

\* the view crashed: a render threw
Fault == "TypeError: render" \in uncaught

\* C1: status only moves forward through connecting -> connected ->
\* disconnected, and once it is "disconnected" no step changes it again.
C1_StatusForwardOnly ==
    [][ /\ Rank(status) <= Rank(status')
        /\ (status = "disconnected" => status' = "disconnected") ]_vars

\* C1 witness: the component is mounted, status went through "connected" to
\* "disconnected", and the socket has fired its last event (close).
C1_Witness ==
    /\ mounted
    /\ status = "disconnected"
    /\ lastUpdate # "--"
    /\ readyState = "CLOSED"
    /\ ~closePending

\* C2: after the cleanup has run, no channel callback runs a state setter
\* (setStatus, setLastUpdate are called by the channel callbacks only).
C2_NoChannelSetterAfterUnmount ==
    ~mounted => late \cap {"setStatus", "setLastUpdate"} = {}

\* C3: a response that arrives after unmount is ignored: its handler calls
\* none of setDistribution, setPosts, setTrend and raises no error.
C3_LateResponseIgnored ==
    late \cap {"setDistribution", "setPosts", "setTrend",
               "TypeError: d.posts.forEach", "SyntaxError: res.json"} = {}

\* C4: a failed fetch (network error or non-success status) leaves
\* distribution, posts and trend as they were.
C4_FailedFetchWritesNothing ==
    [][ /\ (SettleDistribution /\ ~Ok(reqDistribution.response))
            => UNCHANGED <<distribution, posts, trend>>
        /\ (SettlePosts /\ ~Ok(reqPosts.response))
            => UNCHANGED <<distribution, posts, trend>> ]_vars

\* C5: while the component is mounted, trend is computeTrendBuckets of the
\* stored post list.
C5_TrendMatchesPosts ==
    mounted => (posts # Undefined /\ trend = computeTrendBuckets(posts.items))

\* what the two responses alone determine
InitialDistribution == Dist(0, 0, 0)
InitialPosts == Array(<<>>)

FinalDistribution(r) ==
    IF Ok(r) THEN r.body.distribution
    ELSE IF r.kind = "http" /\ r.json THEN Undefined ELSE InitialDistribution

FinalPosts(r) ==
    IF Ok(r) THEN r.body.posts
    ELSE IF r.kind = "http" /\ r.json THEN Undefined ELSE InitialPosts

FinalTrend(r) == IF Ok(r) THEN computeTrendBuckets(r.body.posts.items) ELSE <<>>

\* C6: the stored distribution depends on the distribution request alone and
\* the stored posts and trend on the posts request alone, whatever the order
\* in which the two completions and the channel callbacks ran.
C6_OrderIndependent ==
    /\ ~Settled(reqDistribution) => distribution = InitialDistribution
    /\ ~Settled(reqPosts) => (posts = InitialPosts /\ trend = <<>>)
    /\ (mounted /\ Settled(reqDistribution))
          => distribution = FinalDistribution(reqDistribution.response)
    /\ (mounted /\ Settled(reqPosts))
          => /\ posts = FinalPosts(reqPosts.response)
             /\ trend = FinalTrend(reqPosts.response)

\* C6 witness: both completions and a channel message have run on a mounted
\* component, with a non-empty post list and a non-zero distribution stored.
C6_Witness ==
    /\ mounted
    /\ reqDistribution.state = "fulfilled"
    /\ reqPosts.state = "fulfilled"
    /\ status = "connected"
    /\ distribution = Dist(45, 12, 20)
    /\ posts # Undefined
    /\ trend # <<>>

\* payloads of MessageData that are JSON texts, and those that are not
WellFormed == { "{\"type\":\"new_post\",\"data\":{}}", "{}" }
Malformed == MessageData \ WellFormed

\* C7 as stated: every inbound message, whatever its payload, sets status to
\* "connected" and lastUpdate to the current time and changes nothing else.
C7_EveryMessageConnects ==
    [][ \A data \in MessageData, t \in 1..MaxTime :
            WsMessage(data, t) =>
                /\ status' = "connected"
                /\ lastUpdate' = toLocaleTimeString(t)
                /\ UNCHANGED <<distribution, posts, trend>> ]_vars

\* C7 amended: every inbound message whose payload parses as JSON sets status
\* to "connected" and lastUpdate to the current time; every inbound message,
\* parseable or not, leaves distribution, posts and trend unchanged.
C7_ParsedMessageConnects ==
    [][ \A data \in MessageData, t \in 1..MaxTime :
            WsMessage(data, t) =>
                /\ data \in WellFormed =>
                      (status' = "connected" /\ lastUpdate' = toLocaleTimeString(t))
                /\ UNCHANGED <<distribution, posts, trend>> ]_vars

\* C7 witness: a message was handled after both REST completions stored data.
C7_Witness ==
    /\ status = "connected"
    /\ lastUpdate = toLocaleTimeString(MaxTime)
    /\ distribution = Dist(3, 1, 0)
    /\ posts # Undefined /\ posts # InitialPosts

\* C8: a message whose payload is not JSON is a no-op: no hook state changes,
\* the component stays mounted and the view does not fault.
C8_MalformedMessageIsNoOp ==
    [][ \A data \in Malformed, t \in 1..MaxTime :
            WsMessage(data, t) =>
                /\ UNCHANGED <<distribution, posts, trend, status, lastUpdate>>
                /\ UNCHANGED <<mounted, dirty>>
                /\ Fault' = Fault ]_vars

\* C8 witness: a malformed message was delivered to a mounted, open component
\* that had never been connected, and the view has not faulted.
C8_Witness ==
    /\ "SyntaxError: JSON.parse" \in uncaught
    /\ mounted /\ ~Fault
    /\ readyState = "OPEN"
    /\ status = "connecting" /\ lastUpdate = "--"

\* C9: status starts as "connecting", and once it is something else no step
\* sets it back to "connecting".
C9_NeverBackToConnecting ==
    /\ status = "connecting"
    /\ [][status # "connecting" => status' # "connecting"]_vars

\* C9 witness: status has left "connecting" and both fetches have completed
\* and the socket has closed since.
C9_Witness ==
    /\ status # "connecting"
    /\ Settled(reqDistribution) /\ Settled(reqPosts)
    /\ readyState = "CLOSED"

\* C10: no REST completion, successful or failed, changes status or
\* lastUpdate; status changes only in a channel message, error or close step.
C10_RestLeavesStatusAlone ==
    [][ /\ (SettleDistribution \/ SettlePosts) => UNCHANGED <<status, lastUpdate>>
        /\ (status' # status \/ lastUpdate' # lastUpdate) =>
              \/ \E data \in MessageData, t \in 1..MaxTime : WsMessage(data, t)
              \/ WsError
              \/ WsClose ]_vars

\* C10 witness: one fetch succeeded and the other failed on an open channel,
\* and status is still "connecting".
C10_Witness ==
    /\ reqDistribution.state = "fulfilled"
    /\ reqPosts.state = "rejected"
    /\ readyState = "OPEN"
    /\ status = "connecting" /\ lastUpdate = "--"

\* C11: one WebSocket is constructed per mount and no step constructs
\* another, also after "disconnected"; once the cleanup has run that socket
\* is closing or closed.
C11_OneSocketPerMount ==
    /\ sockets = 1
    /\ ~mounted => readyState \in {"CLOSING", "CLOSED"}

\* C11 witness: the channel was connected, went "disconnected", both fetches
\* completed and the component was unmounted, with the one socket closed.
C11_Witness ==
    /\ ~mounted
    /\ status = "disconnected" /\ lastUpdate # "--"
    /\ Settled(reqDistribution) /\ Settled(reqPosts)
    /\ readyState = "CLOSED" /\ ~closePending

\* C17: status "connected" implies a message was handled (lastUpdate is no
\* longer "--"), status "connecting" implies lastUpdate is still "--", and
\* the socket opening changes neither.
C17_ConnectedMeansMessage ==
    /\ [](status = "connected" => lastUpdate # "--")
    /\ [](status = "connecting" => lastUpdate = "--")
    /\ [][WsOpen => UNCHANGED <<status, lastUpdate>>]_vars

\* C17 witness: the socket is open, no message has come, status is still
\* "connecting" although both fetches have succeeded.
C17_Witness ==
    /\ readyState = "OPEN"
    /\ status = "connecting" /\ lastUpdate = "--"
    /\ reqDistribution.state = "fulfilled" /\ reqPosts.state = "fulfilled"
    /\ uncaught = {}

\* C18: each request is issued once (posts with limit 20, offset 0) and a
\* settled request is never issued again, so distribution changes only in
\* the step that settles its request, and posts and trend likewise.
C18_FetchedOnce ==
    [][ /\ Settled(reqDistribution) => reqDistribution' = reqDistribution
        /\ Settled(reqPosts) => reqPosts' = reqPosts
        /\ reqPosts'.args = <<20, 0>>
        /\ distribution' # distribution =>
              (~Settled(reqDistribution) /\ Settled(reqDistribution'))
        /\ (posts' # posts \/ trend' # trend) =>
              (~Settled(reqPosts) /\ Settled(reqPosts')) ]_vars

\* C18 witness: both stored values were replaced once and messages, the last
\* at the latest clock reading, were handled on the mounted component.
C18_Witness ==
    /\ mounted
    /\ distribution = Dist(45, 12, 20)
    /\ posts # Undefined /\ posts # InitialPosts /\ trend # <<>>
    /\ status = "connected" /\ lastUpdate = toLocaleTimeString(MaxTime)

(***************************************************************************)
(* The percentage breakdown on its own: the distribution handler and the   *)
(* render run on every distribution with counts up to MaxCount, and on     *)
(* the spec's examples, two half-way cases (1/32, exact in binary, and     *)
(* 23/160, not) and a distribution with two very small shares.             *)
(***************************************************************************)
ChartDistributions ==
    [positive : 0..MaxCount, negative : 0..MaxCount, neutral : 0..MaxCount]
        \cup Distributions
        \cup {Dist(1, 31, 0), Dist(23, 137, 0), Dist(1, 1, 20001)}

InitChart ==
    InitWith({Http(200, TRUE, [distribution |-> d]) : d \in ChartDistributions},
             {Http(200, TRUE, [total |-> 0, posts |-> Array(<<>>)])})

NextChart ==
    \/ SettleDistribution
    \/ \E down \in TieSides : Render(down)

SpecChart == InitChart /\ [][NextChart]_vars

RECURSIVE TotalCount(_)
TotalCount(buckets) ==
    IF buckets = <<>> THEN 0
    ELSE Head(buckets).positive + Head(buckets).negative + Head(buckets).neutral
            + TotalCount(Tail(buckets))

\* C12: the positive, negative and neutral counts of all trend buckets add
\* up to the number of posts in the list the buckets were computed from.
C12_CountsSumToLength ==
    Settled(reqPosts) => TotalCount(trend) = Len(posts.items)

\* C12 witness: a full batch was aggregated into two buckets, so one bucket
\* holds more than one post.
C12_Witness ==
    /\ reqPosts.state = "fulfilled"
    /\ Len(posts.items) = MaxBatch
    /\ Len(trend) = 2

HourOfDay(t) == t % 24

HoursIn(items) == {HourOfDay(items[j].created_at) : j \in DOMAIN items}

Example13 == <<Post(10, "positive"), Post(10, "negative"), Post(14, "neutral")>>

\* C13: there is exactly one bucket per distinct hour of day (0-23) in the
\* post list and none for another hour; every bucket has the three label
\* counts, each the number of posts of that hour and label (0 if none); the
\* empty list gives no bucket, and the example gives hour 10 {1,1,0} and
\* hour 14 {0,0,1}.
C13_OneBucketPerHour ==
    Settled(reqPosts) =>
        LET items == posts.items
        IN  /\ Len(trend) = Cardinality(HoursIn(items))
            /\ {trend[i].timestamp : i \in DOMAIN trend}
                  = {<<"Hour", h>> : h \in HoursIn(items)}
            /\ HoursIn(items) \subseteq 0..23
            /\ \A i \in DOMAIN trend :
                  /\ Labels \subseteq DOMAIN trend[i]
                  /\ \A l \in Labels :
                        trend[i][l] = Cardinality({j \in DOMAIN items :
                            /\ <<"Hour", HourOfDay(items[j].created_at)>> = trend[i].timestamp
                            /\ items[j].sentiment.label = l})
            /\ items = <<>> => trend = <<>>
            /\ items = Example13 =>
                  {trend[i] : i \in DOMAIN trend}
                     = { [timestamp |-> <<"Hour", 10>>, positive |-> 1, negative |-> 1, neutral |-> 0],
                         [timestamp |-> <<"Hour", 14>>, positive |-> 0, negative |-> 0, neutral |-> 1] }

\* C13 witness: the example batch was aggregated.
C13_Witness ==
    /\ reqPosts.state = "fulfilled"
    /\ posts.items = Example13
    /\ Len(trend) = 2

Total(d) == d.positive + d.negative + d.neutral

\* the chart on screen was rendered from the stored distribution
ChartCurrent == mounted /\ ~dirty /\ distribution # Undefined

\* C14: when the three counts sum to zero the chart is the "no data" empty
\* state (no percentage is computed), in the initial state as well as after
\* a zero distribution has arrived.
C14_ZeroTotalIsNoData ==
    (ChartCurrent /\ Total(distribution) = 0) => chart = NoData

\* C14 witness: an all-zero distribution response was stored and rendered.
C14_Witness ==
    /\ reqDistribution.state = "fulfilled"
    /\ ChartCurrent
    /\ distribution = Dist(0, 0, 0)
    /\ chart = NoData

\* 100 * count / total in hundredths, rounded half away from zero
HalfAway(count, total) == (20000 * count + total) \div (2 * total)

\* 100 * count / total lies half-way between two hundredths, and count / total
\* is not a binary fraction
InexactTie(count, total) ==
    /\ (20000 * count) % (2 * total) = total
    /\ (32 * count) % total # 0

Slices == chart.chartData

SlicesOf(l) == {i \in DOMAIN Slices : Slices[i].name = l}

\* C15 as stated: with a non-zero total, each of the three labels, also one
\* whose count is 0, has a percentage, 100 * count / total rounded half away
\* from zero to two decimals.
C15_EveryLabelHalfAway ==
    (ChartCurrent /\ Total(distribution) > 0) =>
        \A l \in Labels : \E i \in SlicesOf(l) :
            Slices[i].percentage = Fixed2(HalfAway(distribution[l], Total(distribution)))

\* C15 amended: with a non-zero total, each label whose count is positive has
\* one slice and a label whose count is 0 has none; a slice's percentage is
\* 100 * count / total rounded half away from zero to two decimals, except
\* that a half-way case whose count / total is not a binary fraction may be
\* rounded down; {3, 1, 0} gives positive 75.00 and negative 25.00 only.
C15_PositiveLabelsRounded ==
    (ChartCurrent /\ Total(distribution) > 0) =>
        LET total == Total(distribution)
        IN  /\ chart.view = "PieChart"
            /\ \A l \in Labels :
                  LET count == distribution[l]
                  IN  IF count = 0 THEN SlicesOf(l) = {}
                      ELSE /\ Cardinality(SlicesOf(l)) = 1
                           /\ \A i \in SlicesOf(l) :
                                 /\ Slices[i].value = count
                                 /\ \/ Slices[i].percentage = Fixed2(HalfAway(count, total))
                                    \/ /\ InexactTie(count, total)
                                       /\ Slices[i].percentage
                                             = Fixed2(HalfAway(count, total) - 1)
            /\ distribution = Dist(3, 1, 0) =>
                  Slices = << [name |-> "positive", value |-> 3, percentage |-> "75.00"],
                              [name |-> "negative", value |-> 1, percentage |-> "25.00"] >>

\* C15 witness: {3, 1, 0} was stored and rendered as two slices.
C15_Witness ==
    /\ ChartCurrent
    /\ distribution = Dist(3, 1, 0)
    /\ chart # NoData
    /\ Len(chart.chartData) = 2

AllPositive(d) == d.positive > 0 /\ d.negative > 0 /\ d.neutral > 0

\* the hundredths a slice's percentage string stands for
Near(l) ==
    {n \in {HalfAway(distribution[l], Total(distribution)) + k : k \in {-1, 0, 1}} :
        /\ n >= 0
        /\ \E i \in SlicesOf(l) : Slices[i].percentage = Fixed2(n)}

SumsTo100 ==
    \E p \in Near("positive"), n \in Near("negative"), u \in Near("neutral") :
        /\ p + n + u >= 10000 - 3
        /\ p + n + u <= 10000 + 3

\* C16 as stated: when all three counts are positive there are exactly three
\* slices, each with a non-zero percentage, and the percentages sum to
\* 100.00 within 0.01 per slice.
C16_ThreeNonZeroPercentages ==
    (ChartCurrent /\ AllPositive(distribution)) =>
        /\ chart.view = "PieChart"
        /\ Len(Slices) = 3
        /\ \A i \in DOMAIN Slices : Slices[i].percentage # "0.00"
        /\ SumsTo100

\* C16 amended: when all three counts are positive there are exactly three
\* slices, one per label, each with its non-zero count as value; a slice's
\* percentage is non-zero when 20000 * count > total and 0.00 when
\* 20000 * count < total; the percentages sum to 100.00 within 0.01 per slice.
C16_ThreeSlicesSumTo100 ==
    (ChartCurrent /\ AllPositive(distribution)) =>
        /\ chart.view = "PieChart"
        /\ Len(Slices) = 3
        /\ \A l \in Labels : \E i \in SlicesOf(l) :
              /\ Slices[i].value = distribution[l] /\ Slices[i].value > 0
              /\ 20000 * distribution[l] > Total(distribution)
                    => Slices[i].percentage # "0.00"
              /\ 20000 * distribution[l] < Total(distribution)
                    => Slices[i].percentage = "0.00"
        /\ SumsTo100

\* C16 witness: {45, 12, 20} was stored and rendered as three slices.
C16_Witness ==
    /\ ChartCurrent
    /\ distribution = Dist(45, 12, 20)
    /\ chart # NoData
    /\ chart.chartData =
          << [name |-> "positive", value |-> 45, percentage |-> "58.44"],
             [name |-> "negative", value |-> 12, percentage |-> "15.58"],
             [name |-> "neutral",  value |-> 20, percentage |-> "25.97"] >>

====
